---- MODULE Spec2Model ----
(***************************************************************************)
(* Model of the element pool of src/lib/DOMutil.js (prepareElements,       *)
(* cleanupElements, resetElements, getSVGElement, getDOMElement) and of    *)
(* the one-time 'changed' handler of src/lib/timeline/Graph2d.js.          *)
(***************************************************************************)
EXTENDS Integers, Sequences, FiniteSets, TLC

\* ------------------------------------------------------------------ bounds

\* Number of elements document.createElement/createElementNS may hand out.
MaxNodes == 3

\* How deep a 'changed' event emitted from inside the handler is followed.
MaxNest == 1

\* ----------------------------------------------------------------- domains

Nodes == 1..MaxNodes

\* elementType arguments
Tags == {"rect", "path"}

\* svgContainer / DOMContainer arguments: two elements of the page that are
\* not themselves pooled.
Containers == {"svgA", "svgB"}

\* parentNode of an element that is in no container
Null == "null"

\* the insertBefore argument when it is not given (insertBefore === undefined)
NoRef == 0

GetOps == {"getSVGElement", "getDOMElement"}

VARIABLES
  JSONcontainer,  \* the pool: per elementType, own key or not, used, redundant
  children,       \* DOM: the child list of each container
  created,        \* number of elements created so far (the last id handed out)
  detached,       \* per element: how often removeChild took it out of a parent
  threw,          \* a TypeError was raised (removeChild on a null parentNode)
  last,           \* the last pool call: its name, arguments and return value
  phase,          \* PassSpec only: "idle" between passes, "drawing" inside one
  me,             \* the Graph2d widget: the fields the 'changed' handler uses
  timers,         \* number of setTimeout callbacks waiting for a later turn
  trace           \* Graph2d: what the handler has called so far

poolVars == <<JSONcontainer, children, created, detached, threw, last>>
graphVars == <<me, timers, trace>>
vars == <<JSONcontainer, children, created, detached, threw, last, phase,
          me, timers, trace>>

\* ------------------------------------------------------------- DOM helpers

SeqSet(s) == {s[i] : i \in 1..Len(s)}

Without(s, n) == SelectSeq(s, LAMBDA x : x # n)

\* element.parentNode
ParentNode(ch, n) ==
  IF \E c \in Containers : n \in SeqSet(ch[c])
  THEN CHOOSE c \in Containers : n \in SeqSet(ch[c])
  ELSE Null

\* parent.removeChild(n)
RemoveChild(ch, n) == [c \in Containers |-> Without(ch[c], n)]

\* container.appendChild(n), n a fresh element
AppendChild(ch, c, n) == [ch EXCEPT ![c] = Append(@, n)]

IndexOf(s, n) == CHOOSE i \in 1..Len(s) : s[i] = n

\* container.insertBefore(n, ref), n a fresh element, ref a child of container
InsertBefore(ch, c, n, ref) ==
  LET s == ch[c]
      i == IndexOf(s, ref)
  IN [ch EXCEPT ![c] = SubSeq(s, 1, i - 1) \o <<n>> \o SubSeq(s, i, Len(s))]

\* ------------------------------------------------------------ pool helpers

\* The order in which "for (var elementType in JSONcontainer)" visits the
\* keys. The loop bodies touch one entry each, so the order shows only in
\* where a TypeError would stop cleanupElements.
KeyOrder == <<"rect", "path">>

\* Object.prototype.hasOwnProperty.call(JSONcontainer, elementType)
HasOwn(J, t) == J[t].has

Used(J, t) == J[t].used

Redundant(J, t) == J[t].redundant

UsedNodes(J) == UNION {SeqSet(J[t].used) : t \in Tags}

RedundantNodes(J) == UNION {SeqSet(J[t].redundant) : t \in Tags}

AttachedNodes(ch) == UNION {SeqSet(ch[c]) : c \in Containers}

\* ---------------------------------------------------------- pool functions

\* A faulty prepareElements: the used list is emptied without being kept
\* as the redundant list.
PrepareElementsForgets(J) ==
  [t \in Tags |-> IF J[t].has THEN [J[t] EXCEPT !.used = <<>>] ELSE J[t]]

\* prepareElements(JSONcontainer)
PrepareElements(J) ==
  [t \in Tags |-> IF J[t].has
                  THEN [J[t] EXCEPT !.redundant = J[t].used, !.used = <<>>]
                  ELSE J[t]]

\* The inner loop of cleanupElements over the entry of tag t, from position
\* k on. st = [J, children, detached, threw].
RECURSIVE CleanupNodes(_, _, _)
CleanupNodes(st, t, k) ==
  IF k > Len(st.J[t].redundant) THEN st
  ELSE LET n == st.J[t].redundant[k]
       IN IF ParentNode(st.children, n) = Null
          THEN [st EXCEPT !.threw = TRUE]
          ELSE CleanupNodes(
                 [st EXCEPT !.children = RemoveChild(st.children, n),
                            !.detached[n] = @ + 1],
                 t, k + 1)

\* A faulty outer loop: the redundant list is not emptied after its
\* elements were removed.
RECURSIVE CleanupEntriesKeepsList(_, _)
CleanupEntriesKeepsList(st, i) ==
  IF i > Len(KeyOrder) THEN st
  ELSE IF ~HasOwn(st.J, KeyOrder[i]) THEN CleanupEntriesKeepsList(st, i + 1)
  ELSE LET s1 == CleanupNodes(st, KeyOrder[i], 1)
       IN IF s1.threw THEN s1 ELSE CleanupEntriesKeepsList(s1, i + 1)

\* The outer loop of cleanupElements, from the i-th key on.
RECURSIVE CleanupEntries(_, _)
CleanupEntries(st, i) ==
  IF i > Len(KeyOrder) THEN st
  ELSE IF ~HasOwn(st.J, KeyOrder[i]) THEN CleanupEntries(st, i + 1)
  ELSE LET t == KeyOrder[i]
           s1 == CleanupNodes(st, t, 1)
       IN IF s1.threw THEN s1
          ELSE CleanupEntries([s1 EXCEPT !.J[t].redundant = <<>>], i + 1)

\* A faulty cleanupElements: "redundant = []" is missing.
CleanupElementsKeepsList(st) == CleanupEntriesKeepsList(st, 1)

\* cleanupElements(JSONcontainer)
CleanupElements(st) == CleanupEntries(st, 1)

\* A faulty resetElements: the first prepareElements call is missing.
ResetElementsNoFirstPrepare(st) ==
  LET s2 == CleanupElements(st)
  IN IF s2.threw THEN s2 ELSE [s2 EXCEPT !.J = PrepareElements(s2.J)]

\* resetElements(JSONcontainer)
ResetElements(st) ==
  LET s1 == [st EXCEPT !.J = PrepareElements(st.J)]
      s2 == CleanupElements(s1)
  IN IF s2.threw THEN s2 ELSE [s2 EXCEPT !.J = PrepareElements(s2.J)]

\* A faulty reuse branch: the last redundant element is taken (pop)
\* instead of the first (shift).
TakeRedundantLast(J, t) ==
  LET r == J[t].redundant
  IN [element |-> r[Len(r)],
      J |-> [J EXCEPT ![t].redundant = SubSeq(r, 1, Len(r) - 1)]]

\* element = redundant[0]; redundant.shift()
TakeRedundant(J, t) ==
  [element |-> Head(J[t].redundant),
   J |-> [J EXCEPT ![t].redundant = Tail(@)]]

\* JSONcontainer[elementType].used.push(element)
PushUsed(J, t, n) == [J EXCEPT ![t].used = Append(@, n)]

\* Place a fresh element: appendChild, or insertBefore when a reference is given.
Place(ch, c, n, ref) ==
  IF ref # NoRef THEN InsertBefore(ch, c, n, ref) ELSE AppendChild(ch, c, n)

\* The body shared by getSVGElement (ref = NoRef) and getDOMElement.
\* Returns [J, children, created, element].
GetElement(J, ch, cnt, t, c, ref) ==
  IF HasOwn(J, t)
  THEN IF Len(Redundant(J, t)) > 0
       THEN LET r == TakeRedundant(J, t)
            IN [J |-> PushUsed(r.J, t, r.element), children |-> ch,
                created |-> cnt, element |-> r.element]
       ELSE LET n == cnt + 1
            IN [J |-> PushUsed(J, t, n), children |-> Place(ch, c, n, ref),
                created |-> n, element |-> n]
  ELSE LET n == cnt + 1
           J1 == [J EXCEPT ![t] = [has |-> TRUE, used |-> <<>>,
                                   redundant |-> <<>>]]
       IN [J |-> PushUsed(J1, t, n), children |-> Place(ch, c, n, ref),
           created |-> n, element |-> n]

\* A get call is enabled in the model while it needs no element beyond MaxNodes.
CanGet(t) == Len(Redundant(JSONcontainer, t)) > 0 \/ created < MaxNodes

PoolState == [J |-> JSONcontainer, children |-> children,
              detached |-> detached, threw |-> threw]

SetPool(st) ==
  /\ JSONcontainer' = st.J
  /\ children' = st.children
  /\ detached' = st.detached
  /\ threw' = st.threw

Call(op) == [op |-> op, type |-> "", container |-> Null,
             insertBefore |-> NoRef, element |-> 0]

\* ------------------------------------------------------------ pool actions

DoPrepare ==
  /\ JSONcontainer' = PrepareElements(JSONcontainer)
  /\ last' = Call("prepareElements")
  /\ UNCHANGED <<children, created, detached, threw>>

DoCleanup ==
  /\ SetPool(CleanupElements(PoolState))
  /\ last' = Call("cleanupElements")
  /\ UNCHANGED created

DoReset ==
  /\ SetPool(ResetElements(PoolState))
  /\ last' = Call("resetElements")
  /\ UNCHANGED created

DoGet(op, t, c, ref) ==
  /\ CanGet(t)
  /\ LET r == GetElement(JSONcontainer, children, created, t, c, ref)
     IN /\ JSONcontainer' = r.J
        /\ children' = r.children
        /\ created' = r.created
        /\ last' = [op |-> op, type |-> t, container |-> c,
                    insertBefore |-> ref, element |-> r.element]
  /\ UNCHANGED <<detached, threw>>

DoGetSVG(t, c) == DoGet("getSVGElement", t, c, NoRef)

\* The insertBefore arguments tried: left out, or the last child of DOMContainer.
RefChoices(ch, c) ==
  {NoRef} \cup (IF ch[c] = <<>> THEN {} ELSE {ch[c][Len(ch[c])]})

DoGetDOM(t, c, ref) ==
  /\ ref \in RefChoices(children, c)
  /\ DoGet("getDOMElement", t, c, ref)

\* ------------------------------------------------------------------ Graph2d

\* Values of options.start / options.end: not given (undefined or null),
\* given but falsy (the timestamp 0), given and truthy.
TimeValues == {"none", "zero", "date"}

\* v != undefined
Defined(v) == v # "none"

\* !v is false
Truthy(v) == v = "date"

Options == [start : TimeValues, end : TimeValues, rollingMode : BOOLEAN,
            onInitialDrawComplete : BOOLEAN]

\* The widget, its pending timers and the record of calls, as one value.
GraphState == [me |-> me, timers |-> timers, trace |-> trace]

\* Range 'rangechanged' listener of Core: the first range change is noted.
MarkRangeChange(s) == [s EXCEPT !.me.initialRangeChangeDone = TRUE]

\* if (me.itemsData == null) return;
HandlerReturnsEarly(s) == s.me.itemsData = Null

\* !me.initialFitDone && !me.options.rollingMode
NeedsInitialFit(s) == ~s.me.initialFitDone /\ ~s.me.options.rollingMode

\* The handler's call of setWindow (a start or an end is given) or of fit,
\* noted in the trace together with what held when it was made.
CallFit(s) ==
  LET s1 == [s EXCEPT !.trace.fitWithoutItems = @ \/ s.me.itemsData = Null,
                      !.trace.fitWhileRolling = @ \/ s.me.options.rollingMode]
  IN IF Defined(s.me.options.start) \/ Defined(s.me.options.end)
     THEN [s1 EXCEPT !.trace.setWindow = @ + 1]
     ELSE [s1 EXCEPT !.trace.fit = @ + 1]

\* A faulty start of the fit branch: initialFitDone is not set.
BeginInitialFitNoFlag(s) == CallFit(s)

\* me.initialFitDone = true, then the call of setWindow or of fit
BeginInitialFit(s) == CallFit([s EXCEPT !.me.initialFitDone = TRUE])

\* !me.initialDrawDone && (me.initialRangeChangeDone ||
\*   (!me.options.start && !me.options.end) || me.options.rollingMode)
NeedsInitialDraw(s) ==
  /\ ~s.me.initialDrawDone
  /\ \/ s.me.initialRangeChangeDone
     \/ (~Truthy(s.me.options.start) /\ ~Truthy(s.me.options.end))
     \/ s.me.options.rollingMode

\* me.dom.loadingScreen.parentNode.removeChild(me.dom.loadingScreen), then
\* the setTimeout; a null parentNode raises a TypeError and ends the handler.
RemoveAndSchedule(s) ==
  IF s.me.loadingScreenParent = Null
  THEN [s EXCEPT !.trace.removeThrew = TRUE]
  ELSE LET s1 == [s EXCEPT !.me.loadingScreenParent = Null,
                           !.trace.removed = @ + 1]
       IN IF s1.me.options.onInitialDrawComplete
          THEN [s1 EXCEPT !.timers = @ + 1, !.trace.scheduled = @ + 1]
          ELSE s1

\* A faulty draw branch: the callback is called at once, not deferred.
InitialDrawCallsAtOnce(s) ==
  LET s0 == [s EXCEPT !.me.initialDrawDone = TRUE, !.me.rootVisible = TRUE]
  IN IF s0.me.loadingScreenParent = Null
     THEN [s0 EXCEPT !.trace.removeThrew = TRUE]
     ELSE LET s1 == [s0 EXCEPT !.me.loadingScreenParent = Null,
                               !.trace.removed = @ + 1]
          IN IF s1.me.options.onInitialDrawComplete
             THEN [s1 EXCEPT !.trace.scheduled = @ + 1, !.trace.invoked = @ + 1]
             ELSE s1

\* The body of the draw branch (lines 146-153).
InitialDraw(s) ==
  RemoveAndSchedule([s EXCEPT !.me.initialDrawDone = TRUE,
                              !.me.rootVisible = TRUE])

RECURSIVE OnChanged(_, _)

\* What a call of setWindow or fit can do before it returns: nothing, or a
\* range change, whose 'rangechange' listeners may redraw and so emit
\* 'changed' again, and whose 'rangechanged' listener notes the change.
RangeOutcomes(s, depth) ==
  {s} \cup {MarkRangeChange(x) :
              x \in {s} \cup (IF depth > 0 THEN OnChanged(s, depth - 1) ELSE {})}

\* The 'changed' handler: the set of states it can end in.
OnChanged(s, depth) ==
  IF HandlerReturnsEarly(s) THEN {s}
  ELSE LET afterFit == IF NeedsInitialFit(s)
                       THEN RangeOutcomes(BeginInitialFit(s), depth)
                       ELSE {s}
       IN {IF ~x.trace.removeThrew /\ NeedsInitialDraw(x) THEN InitialDraw(x) ELSE x :
             x \in afterFit}

\* Core.prototype.setOptions: the given fields replace the stored ones.
CoreSetOptions(s, o) == [s EXCEPT !.me.options = o]

\* Graph2d.prototype.setItems
SetItems(s, items, depth) ==
  LET initialLoad == s.me.itemsData = Null
      s1 == [s EXCEPT !.me.itemsData = items]
  IN IF initialLoad THEN RangeOutcomes(s1, depth) ELSE {s1}

\* The timeout callback: () => me.options.onInitialDrawComplete()
TimeoutCallback(s) ==
  IF s.me.options.onInitialDrawComplete
  THEN [s EXCEPT !.timers = @ - 1, !.trace.invoked = @ + 1]
  ELSE [s EXCEPT !.timers = @ - 1, !.trace.timerThrew = TRUE]

SetGraph(s) ==
  /\ me' = s.me
  /\ timers' = s.timers
  /\ trace' = s.trace

\* ---------------------------------------------------------- Graph2d actions

EmitChanged ==
  /\ \E s \in OnChanged(GraphState, MaxNest) : SetGraph(s)
  /\ UNCHANGED <<poolVars, phase>>

DoSetItems ==
  /\ \E items \in {Null, "data"} :
       \E s \in SetItems(GraphState, items, MaxNest) : SetGraph(s)
  /\ UNCHANGED <<poolVars, phase>>

DoSetOptions ==
  /\ \E o \in Options : SetGraph(CoreSetOptions(GraphState, o))
  /\ UNCHANGED <<poolVars, phase>>

RangeChanged ==
  /\ SetGraph(MarkRangeChange(GraphState))
  /\ UNCHANGED <<poolVars, phase>>

RunTimer ==
  /\ timers > 0
  /\ SetGraph(TimeoutCallback(GraphState))
  /\ UNCHANGED <<poolVars, phase>>

\* ------------------------------------------------------------ specifications

PoolInit ==
  /\ JSONcontainer = [t \in Tags |->
                       [has |-> FALSE, used |-> <<>>, redundant |-> <<>>]]
  /\ children = [c \in Containers |-> <<>>]
  /\ created = 0
  /\ detached = [n \in Nodes |-> 0]
  /\ threw = FALSE
  /\ last = Call("none")
  /\ phase = "idle"

\* What Core's _create leaves behind: nothing drawn yet, no range change
\* seen, the loading screen a child of the widget's container, the root hidden.
CoreCreated ==
  [initialDrawDone |-> FALSE, initialRangeChangeDone |-> FALSE,
   loadingScreenParent |-> "container", rootVisible |-> FALSE]

\* The widget when the 'changed' handler has just been registered (line 155):
\* defaultOptions, no items, no fit done. The rest of the constructor
\* (setOptions, setItems, the first redraw) are steps of GraphNext.
GraphInit ==
  /\ me = [itemsData |-> Null,
           options |-> [start |-> "none", end |-> "none", rollingMode |-> FALSE,
                        onInitialDrawComplete |-> FALSE],
           initialFitDone |-> FALSE,
           initialDrawDone |-> CoreCreated.initialDrawDone,
           initialRangeChangeDone |-> CoreCreated.initialRangeChangeDone,
           loadingScreenParent |-> CoreCreated.loadingScreenParent,
           rootVisible |-> CoreCreated.rootVisible]
  /\ timers = 0
  /\ trace = [fit |-> 0, setWindow |-> 0, fitWithoutItems |-> FALSE,
              fitWhileRolling |-> FALSE, removed |-> 0, scheduled |-> 0,
              invoked |-> 0, removeThrew |-> FALSE, timerThrew |-> FALSE]

Init == PoolInit /\ GraphInit

\* Any interleaving of the five pool functions on one pool.
PoolNext ==
  \/ DoPrepare /\ UNCHANGED <<phase, graphVars>>
  \/ DoCleanup /\ UNCHANGED <<phase, graphVars>>
  \/ DoReset /\ UNCHANGED <<phase, graphVars>>
  \/ \E t \in Tags, c \in Containers :
       DoGetSVG(t, c) /\ UNCHANGED <<phase, graphVars>>
  \/ \E t \in Tags, c \in Containers, ref \in {NoRef} \cup Nodes :
       DoGetDOM(t, c, ref) /\ UNCHANGED <<phase, graphVars>>

Spec == Init /\ [][PoolNext]_vars

\* Draw passes on one pool with the single container "svgA":
\* prepareElements, any number of get calls, cleanupElements.
PassPrepare ==
  /\ phase = "idle"
  /\ phase' = "drawing"
  /\ DoPrepare
  /\ UNCHANGED graphVars

PassGetSVG ==
  /\ phase = "drawing"
  /\ \E t \in Tags : DoGetSVG(t, "svgA")
  /\ UNCHANGED <<phase, graphVars>>

PassGetDOM ==
  /\ phase = "drawing"
  /\ \E t \in Tags, ref \in {NoRef} \cup Nodes : DoGetDOM(t, "svgA", ref)
  /\ UNCHANGED <<phase, graphVars>>

PassCleanup ==
  /\ phase = "drawing"
  /\ phase' = "idle"
  /\ DoCleanup
  /\ UNCHANGED graphVars

PassNext == PassPrepare \/ PassGetSVG \/ PassGetDOM \/ PassCleanup

PassSpec == Init /\ [][PassNext]_vars

\* The Graph2d widget under any sequence of events and calls.
GraphNext == EmitChanged \/ DoSetItems \/ DoSetOptions \/ RangeChanged \/ RunTimer

GraphSpec == Init /\ [][GraphNext]_vars

\* -------------------------------------------------------------------- claims

ListsEmpty(J) == \A t \in Tags : Used(J, t) = <<>> /\ Redundant(J, t) = <<>>

\* n sits in container c immediately before ref
ImmediatelyBefore(ch, c, n, ref) ==
  \E i \in 1..(Len(ch[c]) - 1) : ch[c][i] = n /\ ch[c][i + 1] = ref

\* C1 (PassSpec): whenever a draw pass on the single container has ended,
\* the elements attached under the container are exactly the elements of the
\* used lists, and every redundant list is empty.
C1_PassLeavesExactlyUsed ==
  phase = "idle" =>
    /\ SeqSet(children["svgA"]) = UsedNodes(JSONcontainer)
    /\ AttachedNodes(children) = UsedNodes(JSONcontainer)
    /\ \A t \in Tags : Redundant(JSONcontainer, t) = <<>>

\* A later pass has ended: elements are in use and one was swept.
C1_Witness ==
  /\ phase = "idle"
  /\ last.op = "cleanupElements"
  /\ Cardinality(UsedNodes(JSONcontainer)) >= 2
  /\ \E n \in Nodes : detached[n] = 1

\* C2 (Spec): in every reachable state every element of a used list has a
\* parent, that is, is attached.
C2_UsedAttached ==
  \A n \in UsedNodes(JSONcontainer) : ParentNode(children, n) # Null

\* An element reused after a sweep has taken another one out.
C2_Witness ==
  /\ last.op = "getDOMElement"
  /\ last.element # created
  /\ last.element \in UsedNodes(JSONcontainer)
  /\ \E n \in Nodes : detached[n] = 1

\* C3 (Spec), as claimed: every attached element the pool created is in a
\* used or a redundant list.
C3_NoAttachedNodeDropped ==
  AttachedNodes(children) \subseteq
    UsedNodes(JSONcontainer) \cup RedundantNodes(JSONcontainer)

\* C4 (Spec): a get call creates an element exactly when the redundant list
\* of its tag is empty or the tag has no entry; otherwise it creates nothing,
\* returns the first redundant element, removes it from redundant and
\* appends it to used.
C4_ReuseBeforeCreate ==
  [][last'.op \in GetOps =>
       LET t == last'.type
           r == Redundant(JSONcontainer, t)
           u == Used(JSONcontainer, t)
       IN /\ (created' # created) <=> (~HasOwn(JSONcontainer, t) \/ r = <<>>)
          /\ created' # created =>
               /\ created' = created + 1
               /\ last'.element = created'
               /\ Used(JSONcontainer', t) = Append(u, created')
               /\ Redundant(JSONcontainer', t) = <<>>
          /\ r # <<>> =>
               /\ last'.element = Head(r)
               /\ Redundant(JSONcontainer', t) = Tail(r)
               /\ Used(JSONcontainer', t) = Append(u, Head(r))]_vars

\* A get call has reused an element while another one stays redundant.
C4_Witness ==
  /\ last.op = "getSVGElement"
  /\ last.element # created
  /\ Redundant(JSONcontainer, last.type) # <<>>

\* C5 (Spec), as claimed: no removeChild on a null parentNode, no element of
\* a used list was ever detached, no element is detached twice, and after
\* cleanupElements every created element that is not in use was detached once.
C5_DetachedExactlyOnce ==
  /\ ~threw
  /\ \A n \in UsedNodes(JSONcontainer) : detached[n] = 0
  /\ \A n \in Nodes : detached[n] <= 1
  /\ last.op = "cleanupElements" =>
       \A n \in 1..created :
         n \notin UsedNodes(JSONcontainer) => detached[n] = 1

\* C6 (Spec): resetElements detaches every element that was in a used list,
\* leaves used and redundant empty for every tag, and a get call right after
\* it creates a fresh element.
C6_ResetDetachesAll ==
  [][/\ last'.op = "resetElements" =>
          /\ \A n \in UsedNodes(JSONcontainer) : ParentNode(children', n) = Null
          /\ ListsEmpty(JSONcontainer')
     /\ (last.op = "resetElements" /\ last'.op \in GetOps) =>
          /\ created' = created + 1
          /\ last'.element = created']_vars

\* resetElements has run on a pool that had created elements, and all of
\* them are gone.
C6_Witness ==
  /\ last.op = "resetElements"
  /\ created >= 2
  /\ \A n \in 1..created : detached[n] = 1
  /\ AttachedNodes(children) = {}

\* C7 (Spec), as claimed: the element a get call returns is a child of the
\* container given to that call, immediately before insertBefore when given.
C7_ReturnedInGivenContainer ==
  last.op \in GetOps =>
    /\ ParentNode(children, last.element) = last.container
    /\ last.insertBefore # NoRef =>
         ImmediatelyBefore(children, last.container, last.element,
                           last.insertBefore)

\* C8 (GraphSpec): the handler calls fit or setWindow at most once, never
\* without items and never in rolling mode, and initialFitDone stays true.
C8_InitialFitOnce ==
  [][/\ trace'.fit + trace'.setWindow <= 1
     /\ ~trace'.fitWithoutItems
     /\ ~trace'.fitWhileRolling
     /\ me.initialFitDone => me'.initialFitDone]_vars

\* The fit was made, and afterwards the items were taken away and rolling
\* mode switched on.
C8_Witness ==
  /\ trace.fit + trace.setWindow = 1
  /\ me.initialFitDone
  /\ me.itemsData = Null
  /\ me.options.rollingMode

====
